---- MODULE Spec2Model ----
(***************************************************************************)
(* Model of ema_workbench/em_framework/parameters.py:                      *)
(*   - experiment_generator, a Python generator function (its body runs    *)
(*     only when the returned generator object is advanced with next());   *)
(*   - Policy / Scenario id allocation and the Experiment id;              *)
(*   - construction of RealParameter / IntegerParameter.                   *)
(***************************************************************************)
EXTENDS Integers, Sequences, FiniteSets, TLC

\* ------------------------------------------------------------------ bounds
\* longest model_structures / policies / scenarios collection handed to
\* experiment_generator
MaxLen == 2
\* number of next() calls explored on a generator that is already closed
MaxExtraPulls == 1

\* number of Policy objects, and of Scenario objects, constructed in a run
MaxObjects == 2
\* largest id of a replication handed to Experiment
MaxRep == 2
\* number of Experiment objects kept
MaxExperiments == 2
\* bounds and resolution entries range over 0, 0.5, 1, ..., MaxVal
MaxVal == 2
\* longest resolution list
MaxRes == 1
\* longest category list handed to CategoricalParameter
MaxCategories == 3
\* longest list assigned through the categories setter
MaxExtend == 2
\* bounds of the parameters compared with == range over 0, ..., MaxEqVal
MaxEqVal == 2


\* ------------------------------------------------------- generator state
VARIABLES
    pc,                \* "none" | "created" | "suspended" | "closed"
    scenarios,         \* argument of the current invocation
    model_structures,  \* argument of the current invocation
    policies,          \* argument of the current invocation
    zip_over,          \* argument of the current invocation
    jobs,              \* local of the generator frame
    i,                 \* next value of enumerate(jobs)
    yielded,           \* Cases handed to the consumer by this invocation
    raised,            \* exceptions the consumer got from next(), in order
    replayed           \* TRUE once the function was invoked a second time

genvars == <<pc, scenarios, model_structures, policies, zip_over, jobs, i,
             yielded, raised, replayed>>

\* Policy, Scenario, Experiment
VARIABLES
    Policy_id_counter,    \* next value of the class attribute Policy.id_counter
    Scenario_id_counter,  \* next value of Scenario.id_counter
    made_policies,        \* Policy objects in construction order
    made_scenarios,       \* Scenario objects in construction order
    experiments           \* Experiment objects constructed

idvars == <<Policy_id_counter, Scenario_id_counter, made_policies,
            made_scenarios, experiments>>

\* parameter construction
VARIABLES
    pstate,        \* "none" before the constructor call, "done" after it
    param_args,    \* arguments of the constructor call
    param,         \* the constructed parameter
    param_raised   \* "none" or the exception the constructor raised

paramvars == <<pstate, param_args, param, param_raised>>

\* parameters_to_csv followed by create_parameters
VARIABLES
    csv_params,    \* the collection handed to parameters_to_csv
    csv_table,     \* the rows of the file written, cells as text
    csv_created    \* the list create_parameters returns for that file

csvvars == <<csv_params, csv_table, csv_created>>

\* one evaluation of self == other
VARIABLES
    eq_self,       \* left operand
    eq_other,      \* right operand
    eq_result      \* "none" before the comparison, then "True" or "False"

eqvars == <<eq_self, eq_other, eq_result>>

vars == <<genvars, idvars, paramvars, csvvars, eqvars>>

\* ------------------------------------------------------------ input sets
\* names are sequences of characters
ModelNames == {<<"m">>, <<"m", " ", "p">>}
PolicyNames == {<<"p">>, <<"p", " ", "1">>}
ScenarioNames == {<<"s">>}

RECURSIVE SeqsUpTo(_, _)
SeqsUpTo(S, n) ==
    IF n = 0 THEN {<<>>}
    ELSE LET shorter == SeqsUpTo(S, n - 1)
         IN  shorter \cup {Append(q, x) : q \in shorter, x \in S}

\* model structures are named objects
ModelLists ==
    {[k \in 1..Len(q) |-> [name |-> q[k]]] : q \in SeqsUpTo(ModelNames, MaxLen)}
\* the k-th Policy / Scenario of a list is a distinct object (distinct id)
PolicyLists ==
    {[k \in 1..Len(q) |-> [name |-> q[k], id |-> k]] :
        q \in SeqsUpTo(PolicyNames, MaxLen)}
ScenarioLists ==
    {[k \in 1..Len(q) |-> [name |-> q[k], id |-> k]] :
        q \in SeqsUpTo(ScenarioNames, MaxLen)}

\* "other" stands for any string outside the three recognised axis names
AxisNames == {"scenarios", "policies", "models"}
ZipNames == AxisNames \cup {"other"}
ZipOverArgs ==
    {[none |-> TRUE, names |-> {}]} \cup
    {[none |-> FALSE, names |-> z] : z \in SUBSET ZipNames}

\* ------------------------------------------------------- pure operators
\* zip(a, b): stops at the shorter argument
zip2(a, b) ==
    LET n == IF Len(a) < Len(b) THEN Len(a) ELSE Len(b)
    IN  [k \in 1..n |-> <<a[k], b[k]>>]

zip3(a, b, c) ==
    LET n2 == IF Len(a) < Len(b) THEN Len(a) ELSE Len(b)
        n == IF n2 < Len(c) THEN n2 ELSE Len(c)
    IN  [k \in 1..n |-> <<a[k], b[k], c[k]>>]

\* itertools.product(a, b): the rightmost argument advances fastest
RECURSIVE product2(_, _)
product2(a, b) ==
    IF a = <<>> THEN <<>>
    ELSE [k \in 1..Len(b) |-> <<Head(a), b[k]>>] \o product2(Tail(a), b)

\* itertools.product(a, b, c)
RECURSIVE product3(_, _, _)
product3(a, b, c) ==
    IF a = <<>> THEN <<>>
    ELSE LET inner == product2(b, c)
         IN  [k \in 1..Len(inner) |-> <<Head(a), inner[k][1], inner[k][2]>>]
             \o product3(Tail(a), b, c)

\* zip_over = set() if zip_over is None else set(zip_over)
zip_over_set(z) == IF z.none THEN {} ELSE z.names

\* variant: the one-item check is missing
zip_over_error_subset_only(z) == ~(zip_over_set(z) \subseteq AxisNames)

\* the two ValueError checks
zip_over_error(z) ==
    \/ ~(zip_over_set(z) \subseteq AxisNames)
    \/ Cardinality(zip_over_set(z)) = 1

\* variant: the assert statements are missing
asserts_skipped(z, S, M, P) == TRUE

\* the assert statements of the branch selected by zip_over
asserts_hold(z, S, M, P) ==
    LET zs == zip_over_set(z)
    IN  CASE zs = {"scenarios", "policies", "models"} ->
                Len(M) = Len(P) /\ Len(M) = Len(S)
          [] zs = {"scenarios", "policies"} -> Len(S) = Len(P)
          [] zs = {"scenarios", "models"} -> Len(M) = Len(S)
          [] zs = {"policies", "models"} -> Len(M) = Len(P)
          [] OTHER -> TRUE

\* variant: policies in the outermost loop
jobs_product_policies_outer(S, M, P) ==
    LET pr == product3(P, M, S)
    IN  [k \in 1..Len(pr) |-> <<pr[k][2], pr[k][1], pr[k][3]>>]

\* jobs of the full factorial branch
jobs_product(S, M, P) == product3(M, P, S)

\* variant: the zipped collections are crossed instead of paired
make_jobs_crossed(z, S, M, P) == jobs_product(S, M, P)

\* jobs: a sequence of (m_, p_, s_) tuples
make_jobs(z, S, M, P) ==
    LET zs == zip_over_set(z)
    IN  CASE zs = {"scenarios", "policies", "models"} -> zip3(M, P, S)
          [] zs = {"scenarios", "policies"} ->
                LET pr == product2(M, zip2(P, S))
                IN  [k \in 1..Len(pr) |-> <<pr[k][1], pr[k][2][1], pr[k][2][2]>>]
          [] zs = {"scenarios", "models"} ->
                LET pr == product2(P, zip2(M, S))
                IN  [k \in 1..Len(pr) |-> <<pr[k][2][1], pr[k][1], pr[k][2][2]>>]
          [] zs = {"policies", "models"} ->
                LET pr == product2(S, zip2(M, P))
                IN  [k \in 1..Len(pr) |-> <<pr[k][2][1], pr[k][2][2], pr[k][1]>>]
          [] OTHER -> jobs_product(S, M, P)

\* str(n) for n >= 0
DigitChars == <<"0", "1", "2", "3", "4", "5", "6", "7", "8", "9">>
RECURSIVE str(_)
str(n) ==
    IF n < 10 THEN <<DigitChars[n + 1]>>
    ELSE str(n \div 10) \o <<DigitChars[(n % 10) + 1]>>

\* '{} {} {}'.format(a, b, n)
format_name(a, b, n) == a \o <<" ">> \o b \o <<" ">> \o str(n)

\* variant: the name leaves the ordinal out
Case_unnumbered(job, n) ==
    [name |-> job[1].name \o <<" ">> \o job[2].name,
     model_name |-> job[1].name,
     policy |-> job[2],
     scenario |-> job[3],
     experiment_id |-> n]

\* Case(name, msi.name, policy, scenario, i) for job = (msi, policy, scenario)
Case(job, n) ==
    [name |-> format_name(job[1].name, job[2].name, n),
     model_name |-> job[1].name,
     policy |-> job[2],
     scenario |-> job[3],
     experiment_id |-> n]

\* ------------------------------------------------------ generator actions
GenInit ==
    /\ pc = "none"
    /\ scenarios = <<>>
    /\ model_structures = <<>>
    /\ policies = <<>>
    /\ zip_over = [none |-> TRUE, names |-> {}]
    /\ jobs = <<>>
    /\ i = 0
    /\ yielded = <<>>
    /\ raised = <<>>
    /\ replayed = FALSE

\* gen = experiment_generator(S, M, P, zip_over=z): calling a generator
\* function binds the arguments and returns a generator object; no statement
\* of the body is executed.  The frame of an invocation shares nothing with
\* any other invocation, so a behaviour follows one invocation.
experiment_generator ==
    \E S \in ScenarioLists, M \in ModelLists, P \in PolicyLists,
       z \in ZipOverArgs :
        /\ pc = "none"
        /\ UNCHANGED <<idvars, paramvars, csvvars, eqvars>>
        /\ pc' = "created"
        /\ scenarios' = S
        /\ model_structures' = M
        /\ policies' = P
        /\ zip_over' = z
        /\ jobs' = <<>>
        /\ i' = 0
        /\ yielded' = <<>>
        /\ raised' = <<>>
        /\ UNCHANGED replayed

\* first next(gen): the body runs from its first line to the first yield, to
\* a raise, or to its end
next_first ==
    /\ pc = "created"
    /\ UNCHANGED <<scenarios, model_structures, policies, zip_over, replayed>>
    /\ UNCHANGED <<idvars, paramvars, csvvars, eqvars>>
    /\ IF zip_over_error(zip_over)
       THEN /\ pc' = "closed"
            /\ raised' = Append(raised, "ValueError")
            /\ UNCHANGED <<jobs, i, yielded>>
       ELSE IF ~asserts_hold(zip_over, scenarios, model_structures, policies)
       THEN /\ pc' = "closed"
            /\ raised' = Append(raised, "AssertionError")
            /\ UNCHANGED <<jobs, i, yielded>>
       ELSE LET js == make_jobs(zip_over, scenarios, model_structures, policies)
            IN  /\ jobs' = js
                /\ IF js = <<>>
                   THEN /\ pc' = "closed"
                        /\ raised' = Append(raised, "StopIteration")
                        /\ UNCHANGED <<i, yielded>>
                   ELSE /\ pc' = "suspended"
                        /\ yielded' = Append(yielded, Case(js[1], 0))
                        /\ i' = 1
                        /\ UNCHANGED raised

\* next(gen) on a generator suspended at the yield: the for loop continues
next_resume ==
    /\ pc = "suspended"
    /\ UNCHANGED <<scenarios, model_structures, policies, zip_over, jobs,
                   replayed>>
    /\ UNCHANGED <<idvars, paramvars, csvvars, eqvars>>
    /\ IF i < Len(jobs)
       THEN /\ yielded' = Append(yielded, Case(jobs[i + 1], i))
            /\ i' = i + 1
            /\ UNCHANGED <<pc, raised>>
       ELSE /\ pc' = "closed"
            /\ raised' = Append(raised, "StopIteration")
            /\ UNCHANGED <<i, yielded>>

\* variant: a closed generator starts over like a reusable collection
next_closed_restarts ==
    /\ pc = "closed"
    /\ Len(raised) <= MaxExtraPulls
    /\ raised' = Append(raised, "StopIteration")
    /\ yielded' = IF jobs = <<>> THEN yielded
                  ELSE Append(yielded, Case(jobs[1], 0))
    /\ UNCHANGED <<pc, scenarios, model_structures, policies, zip_over, jobs,
                   i, replayed>>
    /\ UNCHANGED <<idvars, paramvars, csvvars, eqvars>>

\* next(gen) on a generator that has returned or raised
next_closed ==
    /\ pc = "closed"
    /\ Len(raised) <= MaxExtraPulls
    /\ raised' = Append(raised, "StopIteration")
    /\ UNCHANGED <<pc, scenarios, model_structures, policies, zip_over, jobs,
                   i, yielded, replayed>>
    /\ UNCHANGED <<idvars, paramvars, csvvars, eqvars>>

\* gen = experiment_generator(S, M, P, zip_over=z) once more, with the
\* arguments of the first invocation, after the first generator is closed:
\* a new generator object with a frame of its own, of which no statement
\* has run
experiment_generator_again ==
    /\ pc = "closed"
    /\ ~replayed
    /\ replayed' = TRUE
    /\ pc' = "created"
    /\ jobs' = <<>>
    /\ i' = 0
    /\ yielded' = <<>>
    /\ raised' = <<>>
    /\ UNCHANGED <<scenarios, model_structures, policies, zip_over>>
    /\ UNCHANGED <<idvars, paramvars, csvvars, eqvars>>

\* ------------------------------------------- Policy, Scenario, Experiment

\* id_counter = Counter(1)
Policy_counter_start == 1
Scenario_counter_start == 1

\* Counter.__call__: hands out the current count and advances by one
Counter_call(c) == [value |-> c, next |-> c + 1]

NoReplication == [none |-> TRUE, id |-> 0]
Replications ==
    {NoReplication} \cup {[none |-> FALSE, id |-> r] : r \in 1..MaxRep}

IdsInit ==
    /\ Policy_id_counter = Policy_counter_start
    /\ Scenario_id_counter = Scenario_counter_start
    /\ made_policies = <<>>
    /\ made_scenarios = <<>>
    /\ experiments = {}

\* variant: Scenario draws its id from Policy.id_counter
Scenario_init_policy_counter(name) ==
    /\ Len(made_scenarios) < MaxObjects
    /\ LET c == Counter_call(Policy_id_counter)
       IN  /\ made_scenarios' = Append(made_scenarios, [name |-> name, id |-> c.value])
           /\ Policy_id_counter' = c.next
    /\ UNCHANGED <<Scenario_id_counter, made_policies, experiments>>
    /\ UNCHANGED <<genvars, paramvars, csvvars, eqvars>>

\* Policy(name, **kwargs)
Policy_init(name) ==
    /\ Len(made_policies) < MaxObjects
    /\ LET c == Counter_call(Policy_id_counter)
       IN  /\ made_policies' = Append(made_policies, [name |-> name, id |-> c.value])
           /\ Policy_id_counter' = c.next
    /\ UNCHANGED <<Scenario_id_counter, made_scenarios, experiments>>
    /\ UNCHANGED <<genvars, paramvars, csvvars, eqvars>>

\* Scenario(name, **kwargs)
Scenario_init(name) ==
    /\ Len(made_scenarios) < MaxObjects
    /\ LET c == Counter_call(Scenario_id_counter)
       IN  /\ made_scenarios' = Append(made_scenarios, [name |-> name, id |-> c.value])
           /\ Scenario_id_counter' = c.next
    /\ UNCHANGED <<Policy_id_counter, made_policies, experiments>>
    /\ UNCHANGED <<genvars, paramvars, csvvars, eqvars>>

\* variant: the ids are added
Experiment_id_sum(scenario, policy, replication) ==
    LET replication_id == IF replication.none THEN 1 ELSE replication.id
    IN  scenario.id + policy.id + replication_id

\* self.id of Experiment(scenario, policy, constants, replication)
Experiment_id(scenario, policy, replication) ==
    LET replication_id == IF replication.none THEN 1 ELSE replication.id
    IN  scenario.id * policy.id * replication_id

\* '{}_{}_{}'.format(scenario.name, policy.name, replication_id)
Experiment_name(scenario, policy, replication) ==
    LET replication_id == IF replication.none THEN 1 ELSE replication.id
    IN  scenario.name \o <<"_">> \o policy.name \o <<"_">> \o str(replication_id)

\* Experiment(scenario, policy, constants, replication)
Experiment_init ==
    \E sk \in 1..Len(made_scenarios), pk \in 1..Len(made_policies),
       r \in Replications :
        LET scenario == made_scenarios[sk]
            policy == made_policies[pk]
        IN  /\ Cardinality(experiments) < MaxExperiments
            /\ experiments' = experiments \cup
                 {[id |-> Experiment_id(scenario, policy, r),
                   name |-> Experiment_name(scenario, policy, r),
                   scenario |-> scenario,
                   policy |-> policy,
                   replication |-> r]}
            /\ UNCHANGED <<Policy_id_counter, Scenario_id_counter,
                           made_policies, made_scenarios>>
            /\ UNCHANGED <<genvars, paramvars, csvvars, eqvars>>

\* ------------------------------------------------------------ parameters

\* a number is a Python int or a float; v counts halves, so that 3 is
\* [t |-> "int", v |-> 6] and 1.5 is [t |-> "float", v |-> 3]
PyNone == [t |-> "None", v |-> 0]
Numbers ==
    {[t |-> "int", v |-> 2 * n] : n \in 0..MaxVal} \cup
    {[t |-> "float", v |-> h] : h \in 0..(2 * MaxVal)}
BoundArgs == Numbers \cup {PyNone}
ResolutionArgs == SeqsUpTo(Numbers, MaxRes)

\* isinstance(x, numbers.Integral)
is_Integral(x) == x.t = "int"
arith_type(x, y) == IF x.t = "int" /\ y.t = "int" THEN "int" ELSE "float"
py_sub(x, y) == [t |-> arith_type(x, y), v |-> x.v - y.v]
py_add(x, y) == [t |-> arith_type(x, y), v |-> x.v + y.v]
py_int(n) == [t |-> "int", v |-> 2 * n]
py_float(x) == [t |-> "float", v |-> x.v]

\* frozen scipy.stats distributions: family name, positional arguments
\* (args) and keyword arguments (kwds)
uniform(loc, scale) ==
    [name |-> "uniform", args |-> <<loc, scale>>, kwds |-> <<>>]
randint(low, high) ==
    [name |-> "randint", args |-> <<low, high>>, kwds |-> <<>>]

\* loc and scale of a continuous family, given by position or by keyword
dist_loc(dist) ==
    IF "loc" \in DOMAIN dist.kwds THEN dist.kwds.loc ELSE dist.args[1]
dist_scale(dist) ==
    IF "scale" \in DOMAIN dist.kwds THEN dist.kwds.scale ELSE dist.args[2]

\* dist.ppf(0) (ppf(5e-324) for a discrete family): lower end of the support
\* a continuous family on the unit interval has support [loc, loc + scale],
\* randint(low, high) has support low, ..., high - 1
lower_bound(self) == py_float(dist_loc(self.rv_gen))

\* dist.ppf(1.0): upper end of the support
upper_bound(self) ==
    IF self.rv_gen.name # "randint"
    THEN py_float(py_add(dist_loc(self.rv_gen), dist_scale(self.rv_gen)))
    ELSE py_float(py_sub(self.rv_gen.args[2], py_int(1)))

NoParam == [cls |-> "none", resolution |-> <<>>,
            rv_gen |-> [name |-> "none", args |-> <<>>, kwds |-> <<>>]]
Raise(exc) == [raised |-> exc, obj |-> NoParam]
Return(obj) == [raised |-> "none", obj |-> obj]

\* variant: equal bounds pass the check
Parameter_init_raises_gt(lower, upper, resolution) ==
    \/ \E k \in 1..Len(resolution) :
         ~(resolution[k].v >= lower.v /\ resolution[k].v <= upper.v)
    \/ lower.v > upper.v

\* Parameter.__init__: TRUE when it raises ValueError
Parameter_init_raises(lower, upper, resolution) ==
    \/ \E k \in 1..Len(resolution) :
         ~(resolution[k].v >= lower.v /\ resolution[k].v <= upper.v)
    \/ lower.v >= upper.v

\* RealParameter(name, lower_bound, upper_bound, resolution), dist=None
RealParameter_new(lower, upper, resolution) ==
    IF lower = PyNone \/ upper = PyNone THEN Raise("ValueError")
    ELSE LET dist == uniform(lower, py_sub(upper, lower))
         IN  IF Parameter_init_raises(lower, upper, resolution)
             THEN Raise("ValueError")
             ELSE Return([cls |-> "RealParameter", resolution |-> resolution,
                          rv_gen |-> dist])

\* IntegerParameter(name, lower_bound, upper_bound, resolution), dist=None
IntegerParameter_new(lower, upper, resolution) ==
    IF lower = PyNone \/ upper = PyNone THEN Raise("ValueError")
    ELSE LET dist == randint(lower, py_add(upper, py_int(1)))
             lb_int == is_Integral(lower)
             up_int == is_Integral(upper)
         IN  IF Parameter_init_raises(lower, upper, resolution)
             THEN Raise("ValueError")
             ELSE IF ~(lb_int \/ up_int) THEN Raise("ValueError")
             ELSE IF \E k \in 1..Len(resolution) : ~is_Integral(resolution[k])
             THEN Raise("ValueError")
             ELSE Return([cls |-> "IntegerParameter", resolution |-> resolution,
                          rv_gen |-> dist])

ParamInit ==
    /\ pstate = "none"
    /\ param_args = [cls |-> "none", lower |-> PyNone, upper |-> PyNone,
                     resolution |-> <<>>]
    /\ param = NoParam
    /\ param_raised = "none"

RealParameter_init ==
    \E lower \in BoundArgs, upper \in BoundArgs, resolution \in ResolutionArgs :
        LET r == RealParameter_new(lower, upper, resolution)
        IN  /\ pstate = "none"
            /\ pstate' = "done"
            /\ param_args' = [cls |-> "RealParameter", lower |-> lower,
                              upper |-> upper, resolution |-> resolution]
            /\ param' = r.obj
            /\ param_raised' = r.raised
            /\ UNCHANGED <<genvars, idvars, csvvars, eqvars>>

IntegerParameter_init ==
    \E lower \in BoundArgs, upper \in BoundArgs, resolution \in ResolutionArgs :
        LET r == IntegerParameter_new(lower, upper, resolution)
        IN  /\ pstate = "none"
            /\ pstate' = "done"
            /\ param_args' = [cls |-> "IntegerParameter", lower |-> lower,
                              upper |-> upper, resolution |-> resolution]
            /\ param' = r.obj
            /\ param_raised' = r.raised
            /\ UNCHANGED <<genvars, idvars, csvvars, eqvars>>

\* ------------------------------------------------- CategoricalParameter
\* an object used as a category is a Python str, int or float; a number
\* keeps t and v of Numbers, a str keeps its characters in s
PyStr(chars) == [t |-> "str", v |-> 0, s |-> chars]
PyNum(x) == [t |-> x.t, v |-> x.v, s |-> <<>>]

\* str(x)
py_str(x) ==
    CASE x.t = "str" -> x.s
      [] x.t = "int" -> str(x.v \div 2)
      [] OTHER -> str(x.v \div 2) \o <<".">> \o
                  (IF x.v % 2 = 0 THEN <<"0">> ELSE <<"5">>)

\* create_category(cat) for a cat that is not a Category: Category(str(cat), cat)
create_category(cat) == [name |-> py_str(cat), value |-> cat]

\* sequences without a repeated element, and without an element of used
distinct_seqs(S, n, used) ==
    {q \in SeqsUpTo(S \ used, n) :
        \A k1, k2 \in 1..Len(q) : k1 # k2 => q[k1] # q[k2]}

\* categories of distinct names; how NamedObjectMap treats a repeated name
\* is decided outside this file
CategoryObjects ==
    {PyStr(<<"a">>), PyStr(<<"b">>), PyStr(<<"c">>), PyStr(<<"d">>)}
CategoryLists == distinct_seqs(CategoryObjects, MaxCategories, {})

\* NamedObjectMap.extend(values): an ordered map, new names go to the end
NamedObjectMap_extend(map, values) == map \o values

\* range(n) as a list of ints
py_range(n) == [k \in 1..n |-> py_int(k - 1)]

\* CategoricalParameter(name, categories)
CategoricalParameter_new(categories) ==
    LET lower == py_int(0)
        upper == py_int(Len(categories) - 1)
    IN  IF upper.v = 0 THEN Raise("ValueError")
        ELSE LET r == IntegerParameter_new(lower, upper, <<>>)
                 cats == [k \in 1..Len(categories) |->
                            create_category(categories[k])]
                 map == NamedObjectMap_extend(<<>>, cats)
             IN  IF r.raised # "none" THEN r
                 ELSE Return([cls |-> "CategoricalParameter",
                              resolution |-> py_range(Len(map)),
                              rv_gen |-> r.obj.rv_gen,
                              categories |-> map,
                              multivalue |-> FALSE])

CategoricalParameter_init ==
    \E categories \in CategoryLists :
        LET r == CategoricalParameter_new(categories)
        IN  /\ pstate = "none"
            /\ pstate' = "done"
            /\ param_args' = [cls |-> "CategoricalParameter",
                              lower |-> py_int(0),
                              upper |-> py_int(Len(categories) - 1),
                              resolution |-> <<>>,
                              categories |-> categories]
            /\ param' = r.obj
            /\ param_raised' = r.raised
            /\ UNCHANGED <<genvars, idvars, csvvars, eqvars>>

\* self.categories = values: the setter extends self._categories
categories_setter(self, values) ==
    [self EXCEPT !.categories = NamedObjectMap_extend(@, values)]

\* parameter.categories = values, with Category objects of new names
categories_assign ==
    /\ pstate = "done"
    /\ param.cls = "CategoricalParameter"
    /\ \E new \in distinct_seqs(CategoryObjects, MaxExtend,
                                {c.value : c \in {param.categories[k] :
                                    k \in 1..Len(param.categories)}}) :
            /\ new # <<>>
            /\ param' = categories_setter(param,
                    [k \in 1..Len(new) |-> create_category(new[k])])
    /\ UNCHANGED <<pstate, param_args, param_raised>>
    /\ UNCHANGED <<genvars, idvars, csvvars, eqvars>>

\* -------------------------------- parameters_to_csv, create_parameters
\* obj with its name attribute (NamedObject.__init__ stores the name)
named(obj, name) ==
    [f \in DOMAIN obj \cup {"name"} |-> IF f = "name" THEN name ELSE obj[f]]

\* every parameter the three constructors return
ConstructedParameters ==
    ({RealParameter_new(l, u, r).obj : l \in Numbers, u \in Numbers,
                                       r \in ResolutionArgs}
     \cup {IntegerParameter_new(l, u, r).obj : l \in Numbers, u \in Numbers,
                                              r \in ResolutionArgs}
     \cup {CategoricalParameter_new(c).obj : c \in CategoryLists})
    \ {NoParam}

\* values of one parameter in parameters_to_csv
csv_values(self) ==
    IF self.cls = "CategoricalParameter"
    THEN [j \in 1..Len(self.resolution) |-> PyNum(self.resolution[j])]
    ELSE <<PyNum(lower_bound(self)), PyNum(upper_bound(self))>>

\* parameters_to_csv(parameters, file_name): the rows of the file, the name
\* first and every value written as text.  The file has one row, so each
\* column holds one value and keeps that value's own type.
parameters_to_csv(parameters) ==
    [k \in 1..Len(parameters) |->
        LET values == csv_values(parameters[k])
        IN  [name |-> parameters[k].name,
             cells |-> [j \in 1..Len(values) |-> py_str(values[j])]]]

\* int(text) for a text of digits
RECURSIVE parse_int(_)
parse_int(text) ==
    IF text = <<>> THEN 0
    ELSE parse_int(SubSeq(text, 1, Len(text) - 1)) * 10
         + ((CHOOSE d \in 1..10 : DigitChars[d] = text[Len(text)]) - 1)

is_digits(text) ==
    text # <<>> /\ \A k \in 1..Len(text) :
        \E d \in 1..10 : DigitChars[d] = text[k]

\* pandas.read_csv on one cell: digits give an int, digits.digit a float,
\* anything else stays a str
read_csv_cell(text) ==
    IF is_digits(text) THEN PyNum(py_int(parse_int(text)))
    ELSE IF /\ Len(text) >= 3
            /\ text[Len(text) - 1] = "."
            /\ is_digits(SubSeq(text, 1, Len(text) - 2))
            /\ text[Len(text)] \in {"0", "5"}
    THEN [t |-> "float",
          v |-> 2 * parse_int(SubSeq(text, 1, Len(text) - 2))
                + (IF text[Len(text)] = "5" THEN 1 ELSE 0),
          s |-> <<>>]
    ELSE PyStr(text)

to_number(x) == [t |-> x.t, v |-> x.v]

\* the body of the loop over the rows, infer_type being True
create_parameter(row) ==
    LET values == [j \in 1..Len(row.cells) |-> read_csv_cell(row.cells[j])]
        type == IF Len(values) # 2 THEN "cat"
                ELSE IF is_Integral(values[1]) /\ is_Integral(values[2])
                THEN "int" ELSE "real"
    IN  CASE type = "cat" -> named(CategoricalParameter_new(values).obj, row.name)
          [] type = "int" ->
                named(IntegerParameter_new(to_number(values[1]),
                                           to_number(values[2]), <<>>).obj,
                      row.name)
          [] OTHER ->
                named(RealParameter_new(to_number(values[1]),
                                        to_number(values[2]), <<>>).obj,
                      row.name)

\* create_parameters(file_name) for a file without a type column
create_parameters(table) ==
    [k \in 1..Len(table) |-> create_parameter(table[k])]

parameters_to_csv_call ==
    \E self \in ConstructedParameters :
        /\ csv_params = <<>>
        /\ csv_params' = <<named(self, <<"x">>)>>
        /\ csv_table' = parameters_to_csv(csv_params')
        /\ UNCHANGED csv_created
        /\ UNCHANGED <<genvars, idvars, paramvars, eqvars>>

create_parameters_call ==
    /\ csv_table # <<>>
    /\ csv_created = <<>>
    /\ csv_created' = create_parameters(csv_table)
    /\ UNCHANGED <<csv_params, csv_table>>
    /\ UNCHANGED <<genvars, idvars, paramvars, eqvars>>

\* ------------------------------------------------------------- __eq__
\* RealParameter(name, dist=dist, resolution=resolution)
RealParameter_new_dist(dist, resolution) ==
    LET lower == lower_bound([rv_gen |-> dist])
        upper == upper_bound([rv_gen |-> dist])
    IN  IF Parameter_init_raises(lower, upper, resolution)
        THEN Raise("ValueError")
        ELSE Return([cls |-> "RealParameter", resolution |-> resolution,
                     rv_gen |-> dist])

\* NamedObject.__init__(self, name): the named-entity base keeps the name
NamedObject_init(obj, name) ==
    [f \in DOMAIN obj \cup {"name"} |-> IF f = "name" THEN name ELSE obj[f]]

\* the attributes Parameter.__init__ stores besides rv_gen; default,
\* variable_name and pff keep the defaults of the signature
with_attributes(obj, name) ==
    LET self == NamedObject_init(obj, name)
    IN  [f \in DOMAIN self \cup {"default", "variable_name", "pff"} |->
            CASE f = "default" -> PyNone
              [] f = "variable_name" -> PyNone
              [] f = "pff" -> FALSE
              [] OTHER -> self[f]]

EqNames == {<<"x">>, <<"y">>}
EqNumbers ==
    {py_int(n) : n \in 0..MaxEqVal} \cup {py_float(py_int(n)) : n \in 0..MaxEqVal}

\* explicit distributions over [lower, upper]: a non-uniform family, and the
\* uniform family given by keywords
arcsine(loc, scale) ==
    [name |-> "arcsine", args |-> <<loc, scale>>, kwds |-> <<>>]
uniform_kwds(loc, scale) ==
    [name |-> "uniform", args |-> <<>>, kwds |-> [loc |-> loc, scale |-> scale]]

\* Real and Integer parameters, from bounds or from an explicit distribution
EqParameters ==
    {with_attributes(obj, name) :
        obj \in ({RealParameter_new(l, u, r).obj :
                     l \in EqNumbers, u \in EqNumbers, r \in {<<>>}}
                 \cup {RealParameter_new(l, u, <<l>>).obj :
                     l \in EqNumbers, u \in EqNumbers}
                 \cup {IntegerParameter_new(l, u, r).obj :
                     l \in EqNumbers, u \in EqNumbers, r \in {<<>>}}
                 \cup {IntegerParameter_new(l, u, <<l>>).obj :
                     l \in EqNumbers, u \in EqNumbers}
                 \cup {RealParameter_new_dist(arcsine(l, py_sub(u, l)), <<>>).obj :
                     l \in EqNumbers, u \in EqNumbers}
                 \cup {RealParameter_new_dist(uniform_kwds(l, py_sub(u, l)), <<>>).obj :
                     l \in EqNumbers, u \in EqNumbers})
                \ {NoParam},
        name \in EqNames}

\* x == y for Python numbers and None
py_eq(x, y) == (x.t = "None") = (y.t = "None") /\ x.v = y.v
\* x == y for tuples and lists of numbers
py_seq_eq(x, y) ==
    Len(x) = Len(y) /\ \A k \in 1..Len(x) : py_eq(x[k], y[k])
\* x == y for dicts of numbers
py_dict_eq(x, y) ==
    DOMAIN x = DOMAIN y /\ \A k \in DOMAIN x : py_eq(x[k], y[k])

\* rv_gen.a and rv_gen.b: support of the family before loc and scale apply
rv_a(dist) ==
    IF dist.name = "randint" THEN dist.args[1] ELSE py_float(py_int(0))
rv_b(dist) ==
    IF dist.name = "randint" THEN py_sub(dist.args[2], py_int(1))
    ELSE py_float(py_int(1))

\* keys of self.__dict__ other than rv_gen
dict_keys(self) == DOMAIN self \ {"rv_gen", "cls"}

\* hasattr(self, key) == hasattr(other, key) and
\* getattr(self, key) == getattr(other, key)
attribute_eq(self, other, key) ==
    /\ key \in DOMAIN other
    /\ CASE key = "resolution" -> py_seq_eq(self[key], other[key])
         [] key \in {"default", "variable_name"} -> py_eq(self[key], other[key])
         [] OTHER -> self[key] = other[key]

\* variant: the family name is not compared
RealParameter_eq_no_family(self, other) ==
    /\ \A key \in dict_keys(self) : attribute_eq(self, other, key)
    /\ self.cls = other.cls
    /\ py_seq_eq(self.rv_gen.args, other.rv_gen.args)
    /\ py_dict_eq(self.rv_gen.kwds, other.rv_gen.kwds)
    /\ py_eq(rv_a(self.rv_gen), rv_a(other.rv_gen))
    /\ py_eq(rv_b(self.rv_gen), rv_b(other.rv_gen))

\* RealParameter.__eq__(self, other)
RealParameter_eq(self, other) ==
    /\ \A key \in dict_keys(self) : attribute_eq(self, other, key)
    /\ self.cls = other.cls
    /\ py_seq_eq(self.rv_gen.args, other.rv_gen.args)
    /\ py_dict_eq(self.rv_gen.kwds, other.rv_gen.kwds)
    /\ py_eq(rv_a(self.rv_gen), rv_a(other.rv_gen))
    /\ py_eq(rv_b(self.rv_gen), rv_b(other.rv_gen))
    /\ self.rv_gen.name = other.rv_gen.name

\* IntegerParameter.__eq__(self, other)
IntegerParameter_eq(self, other) ==
    /\ \A key \in dict_keys(self) : attribute_eq(self, other, key)
    /\ self.cls = other.cls
    /\ py_seq_eq(self.rv_gen.args, other.rv_gen.args)
    /\ py_dict_eq(self.rv_gen.kwds, other.rv_gen.kwds)
    /\ py_eq(rv_a(self.rv_gen), rv_a(other.rv_gen))
    /\ py_eq(rv_b(self.rv_gen), rv_b(other.rv_gen))
    /\ self.rv_gen.name = other.rv_gen.name

\* self == other: the __eq__ of the class of self runs
eq_call ==
    \E self \in EqParameters, other \in EqParameters :
        /\ eq_result = "none"
        /\ eq_self' = self
        /\ eq_other' = other
        /\ eq_result' =
             IF (IF self.cls = "RealParameter"
                 THEN RealParameter_eq(self, other)
                 ELSE IntegerParameter_eq(self, other))
             THEN "True" ELSE "False"
        /\ UNCHANGED <<genvars, idvars, paramvars, csvvars>>

\* -------------------------------------------------------- specifications

CsvInit ==
    /\ csv_params = <<>>
    /\ csv_table = <<>>
    /\ csv_created = <<>>

EqInit ==
    /\ eq_self = NoParam
    /\ eq_other = NoParam
    /\ eq_result = "none"

Init == GenInit /\ IdsInit /\ ParamInit /\ CsvInit /\ EqInit

\* one invocation of experiment_generator and its consumer
NextGen ==
    \/ experiment_generator
    \/ next_first
    \/ next_resume
    \/ next_closed
    \/ experiment_generator_again

SpecGen == Init /\ [][NextGen]_vars

\* construction of Policy, Scenario and Experiment objects
NextIds ==
    \/ \E name \in PolicyNames : Policy_init(name)
    \/ \E name \in ScenarioNames : Scenario_init(name)
    \/ Experiment_init

SpecIds == Init /\ [][NextIds]_vars

\* construction of one parameter
NextParam ==
    \/ RealParameter_init
    \/ IntegerParameter_init

SpecParam == Init /\ [][NextParam]_vars

\* construction of a CategoricalParameter and later category extensions
NextCat ==
    \/ CategoricalParameter_init
    \/ categories_assign

SpecCat == Init /\ [][NextCat]_vars

\* export of a parameter collection and re-import of the file
NextCsv ==
    \/ parameters_to_csv_call
    \/ create_parameters_call

SpecCsv == Init /\ [][NextCsv]_vars

\* one comparison of two parameters
NextEq == eq_call

SpecEq == Init /\ [][NextEq]_vars

\* =============================================================== claims
\* ----------------------------------------------- experiment_generator
\* the collection an axis name of zip_over refers to
axis_len(a) ==
    CASE a = "scenarios" -> Len(scenarios)
      [] a = "policies" -> Len(policies)
      [] a = "models" -> Len(model_structures)
      [] OTHER -> 0

\* zip_over is a set of two or three recognised axis names
zip_named == IF zip_over.none THEN {} ELSE zip_over.names
zip_valid23 ==
    /\ zip_named \subseteq {"scenarios", "policies", "models"}
    /\ Cardinality(zip_named) >= 2
zip_same_len == Cardinality({axis_len(a) : a \in zip_named}) = 1
\* zip_over is a single name, or holds a name outside the recognised three
zip_rejected ==
    /\ ~zip_over.none
    /\ \/ Cardinality(zip_over.names) = 1
       \/ zip_over.names \ {"scenarios", "policies", "models"} # {}
exhausted == pc = "closed" /\ raised[1] = "StopIteration"
components(c) == <<c.model_name, c.policy, c.scenario>>

\* C1: with zip_over None or empty the generator yields |M|*|P|*|S| cases,
\* models outermost, then policies, then scenarios; the case at ordinal
\* n = (a*|P| + b)*|S| + c is (M[a], P[b], S[c]) and has experiment_id n.
C1_full_factorial_order ==
    (pc # "none" /\ zip_named = {}) =>
        LET nM == Len(model_structures)
            nP == Len(policies)
            nS == Len(scenarios)
        IN  /\ Len(yielded) <= nM * nP * nS
            /\ pc = "closed" => (exhausted /\ Len(yielded) = nM * nP * nS)
            /\ \A a \in 0..(nM - 1), b \in 0..(nP - 1), c \in 0..(nS - 1) :
                 LET n == (a * nP + b) * nS + c
                 IN  n < Len(yielded) =>
                        /\ yielded[n + 1].model_name = model_structures[a + 1].name
                        /\ yielded[n + 1].policy = policies[b + 1]
                        /\ yielded[n + 1].scenario = scenarios[c + 1]
                        /\ yielded[n + 1].experiment_id = n

\* the spec's example: two scenarios, two models, one policy, all four
\* cases pulled
C1_witness ==
    /\ exhausted
    /\ zip_named = {}
    /\ Len(model_structures) = 2
    /\ Len(policies) = 1
    /\ Len(scenarios) = 2
    /\ Len(yielded) = 4

\* index sets of a zipped enumeration: j runs over the zipped collections,
\* u over the collection that is not zipped (a single round when all three
\* are zipped)
zip_L == axis_len(CHOOSE a \in zip_named : TRUE)
zip_U ==
    IF Cardinality(zip_named) = 3 THEN 1
    ELSE axis_len(CHOOSE a \in {"scenarios", "policies", "models"} \ zip_named : TRUE)
paired(j, u) ==
    <<model_structures[IF "models" \in zip_named THEN j ELSE u].name,
      policies[IF "policies" \in zip_named THEN j ELSE u],
      scenarios[IF "scenarios" \in zip_named THEN j ELSE u]>>

\* C2: when zip_over names two or three axes of equal length L, every case
\* takes its zipped components from one index j, every index j meets every
\* element of the unzipped collection exactly once, and L * |unzipped|
\* cases are yielded in total (L when all three are zipped).
C2_zip_pairs_by_index ==
    (pc # "none" /\ zip_valid23 /\ zip_same_len) =>
        /\ \A k \in 1..Len(yielded) :
             \E j \in 1..zip_L, u \in 1..zip_U :
                components(yielded[k]) = paired(j, u)
        /\ pc = "closed" =>
             /\ exhausted
             /\ Len(yielded) = zip_L * zip_U
             /\ \A j \in 1..zip_L, u \in 1..zip_U :
                  Cardinality({k \in 1..Len(yielded) :
                                 components(yielded[k]) = paired(j, u)})
                  = Cardinality({ju \in (1..zip_L) \X (1..zip_U) :
                                   paired(ju[1], ju[2]) = paired(j, u)})

\* the spec's example: scenarios and policies zipped, two of each, one model
C2_witness ==
    /\ exhausted
    /\ zip_named = {"scenarios", "policies"}
    /\ Len(scenarios) = 2
    /\ Len(policies) = 2
    /\ Len(model_structures) = 1
    /\ Len(yielded) = 2
    /\ yielded[2].policy = policies[2]
    /\ yielded[2].scenario = scenarios[2]

\* C3: a zip_over of exactly one name, or with a name outside the three
\* recognised ones, makes the invocation raise ValueError and never produce
\* a Case, whatever the three collections hold.
C3_bad_zip_over_rejected ==
    (pc # "none" /\ zip_rejected) =>
        /\ yielded = <<>>
        /\ pc \in {"created", "closed"}
        /\ pc = "closed" => raised[1] = "ValueError"

\* a one-name zip_over over non-empty collections, after the pull
C3_witness ==
    /\ zip_rejected
    /\ Cardinality(zip_over.names) = 1
    /\ zip_over.names \subseteq {"scenarios", "policies", "models"}
    /\ Len(scenarios) > 0 /\ Len(policies) > 0 /\ Len(model_structures) > 0
    /\ pc = "closed"
    /\ raised[1] = "ValueError"

\* C4 (as claimed): invalid zip_over input is rejected by the call itself,
\* so no invocation with invalid input ever returns a generator that still
\* awaits its first pull.
C4_fail_fast_at_call ==
    (zip_rejected \/ (zip_valid23 /\ ~zip_same_len)) => pc # "created"

\* C5: when zip_over names two or three axes whose collections differ in
\* length, the invocation raises and yields no Case; it does not truncate
\* to the shortest collection.
C5_length_mismatch_rejected ==
    (pc # "none" /\ zip_valid23 /\ ~zip_same_len) =>
        /\ yielded = <<>>
        /\ pc \in {"created", "closed"}
        /\ pc = "closed" => raised[1] = "AssertionError"

\* mismatched zipped collections, all non-empty, after the pull
C5_witness ==
    /\ zip_valid23
    /\ ~zip_same_len
    /\ Len(scenarios) > 0 /\ Len(policies) > 0 /\ Len(model_structures) > 0
    /\ pc = "closed"
    /\ raised[1] = "AssertionError"
    /\ yielded = <<>>

\* C6: in every mode the k-th yielded Case (0-based) has experiment_id k and
\* the name "<model name> <policy name> <k>", and no two cases of one
\* invocation share a name.
C6_ordinal_and_unique_name ==
    /\ \A k \in 1..Len(yielded) :
         /\ yielded[k].experiment_id = k - 1
         /\ yielded[k].name =
              yielded[k].model_name \o <<" ">> \o yielded[k].policy.name
              \o <<" ">> \o str(k - 1)
    /\ \A k1, k2 \in 1..Len(yielded) :
         k1 # k2 => yielded[k1].name # yielded[k2].name

\* two cases built from equally named models and equally named, distinct
\* policies
C6_witness ==
    \E k1, k2 \in 1..Len(yielded) :
        /\ k1 < k2
        /\ yielded[k1].model_name = yielded[k2].model_name
        /\ yielded[k1].policy.name = yielded[k2].policy.name
        /\ yielded[k1].policy # yielded[k2].policy
        /\ yielded[k1].name # yielded[k2].name

\* ------------------------------------------- Policy, Scenario, Experiment
ids_in_construction_order ==
    /\ \A n \in 1..Len(made_policies) : made_policies[n].id = n
    /\ \A m \in 1..Len(made_scenarios) : made_scenarios[m].id = m
    /\ Policy_id_counter = Len(made_policies) + 1
    /\ Scenario_id_counter = Len(made_scenarios) + 1

ids_persist ==
    /\ \A n \in 1..Len(made_policies) :
         n <= Len(made_policies') /\ made_policies'[n] = made_policies[n]
    /\ \A m \in 1..Len(made_scenarios) :
         m <= Len(made_scenarios') /\ made_scenarios'[m] = made_scenarios[m]
    /\ Policy_id_counter' >= Policy_id_counter
    /\ Scenario_id_counter' >= Scenario_id_counter

\* C7: whatever the interleaving of constructions, the n-th constructed
\* Policy has id n and the m-th constructed Scenario has id m, each counter
\* stands one past the number of objects of its own kind, and a step leaves
\* every object made before it, and so its id, as it was and lowers no
\* counter.
C7_ids_follow_construction_order ==
    [] ids_in_construction_order /\ [][ids_persist]_vars

\* constructions of both kinds, at least two of each
C7_witness ==
    /\ Len(made_policies) >= 2
    /\ Len(made_scenarios) >= 2
    /\ made_policies[2].id = 2
    /\ made_scenarios[2].id = 2

given_bounds == param_args.lower # PyNone /\ param_args.upper # PyNone

\* C9: a Real or Integer parameter given lower_bound >= upper_bound, or a
\* resolution entry outside [lower_bound, upper_bound], is never
\* constructed; every constructed parameter has lower_bound < upper_bound
\* and all resolution entries within its bounds.
C9_bounds_and_resolution_checked ==
    (pstate = "done") =>
        /\ (given_bounds /\
            (\/ param_args.lower.v >= param_args.upper.v
             \/ \E k \in 1..Len(param_args.resolution) :
                  \/ param_args.resolution[k].v < param_args.lower.v
                  \/ param_args.resolution[k].v > param_args.upper.v))
           => param_raised # "none"
        /\ param_raised = "none" =>
             /\ lower_bound(param).v < upper_bound(param).v
             /\ lower_bound(param).v = param_args.lower.v
             /\ upper_bound(param).v = param_args.upper.v
             /\ \A k \in 1..Len(param.resolution) :
                  /\ lower_bound(param).v <= param.resolution[k].v
                  /\ param.resolution[k].v <= upper_bound(param).v

\* a rejected call with equal bounds
C9_witness ==
    /\ pstate = "done"
    /\ given_bounds
    /\ param_args.lower.v = param_args.upper.v
    /\ param_raised = "ValueError"

\* C10 (as claimed): an IntegerParameter whose lower_bound, upper_bound or
\* any resolution entry has a non-integral value is never constructed.
C10_integral_required ==
    (/\ pstate = "done"
     /\ param_args.cls = "IntegerParameter"
     /\ given_bounds
     /\ \/ param_args.lower.v % 2 # 0
        \/ param_args.upper.v % 2 # 0
        \/ \E k \in 1..Len(param_args.resolution) :
             param_args.resolution[k].v % 2 # 0)
    => param_raised # "none"

\* ------------------------------------------------- CategoricalParameter
\* C11 (as claimed): a CategoricalParameter with N categories has resolution
\* [0..N-1] and integer support [0, N-1], after construction and after any
\* sequence of category list extensions.
C11_resolution_tracks_categories ==
    (pstate = "done" /\ param.cls = "CategoricalParameter") =>
        LET N == Len(param.categories)
        IN  /\ param.resolution = [k \in 1..N |-> [t |-> "int", v |-> 2 * (k - 1)]]
            /\ lower_bound(param).v = 0
            /\ upper_bound(param).v = 2 * (N - 1)

\* -------------------------------- parameters_to_csv, create_parameters
\* C12 (as claimed): exporting parameters and re-importing the table gives,
\* for each parameter, the same variant with the same bounds (Real, Integer)
\* or the same category list (Categorical), and the exported row of a
\* categorical parameter holds its category list.
C12_csv_round_trip ==
    \A k \in 1..Len(csv_created) :
        LET old == csv_params[k]
            new == csv_created[k]
        IN  /\ new.cls = old.cls
            /\ old.cls \in {"RealParameter", "IntegerParameter"} =>
                 /\ lower_bound(new).v = lower_bound(old).v
                 /\ upper_bound(new).v = upper_bound(old).v
            /\ old.cls = "CategoricalParameter" =>
                 /\ new.categories = old.categories
                 /\ csv_table[k].cells =
                      [j \in 1..Len(old.categories) |-> old.categories[j].name]

\* ------------------------------------------------------------- __eq__
same_attributes ==
    /\ eq_self.name = eq_other.name
    /\ Len(eq_self.resolution) = Len(eq_other.resolution)
    /\ \A k \in 1..Len(eq_self.resolution) :
         eq_self.resolution[k].v = eq_other.resolution[k].v
    /\ eq_self.default = eq_other.default
    /\ eq_self.variable_name = eq_other.variable_name
    /\ eq_self.pff = eq_other.pff
same_distribution ==
    LET d1 == eq_self.rv_gen
        d2 == eq_other.rv_gen
    IN  /\ d1.name = d2.name
        /\ Len(d1.args) = Len(d2.args)
        /\ \A k \in 1..Len(d1.args) : d1.args[k].v = d2.args[k].v
        /\ DOMAIN d1.kwds = DOMAIN d2.kwds
        /\ \A k \in DOMAIN d1.kwds : d1.kwds[k].v = d2.kwds[k].v
        /\ rv_a(d1).v = rv_a(d2).v
        /\ rv_b(d1).v = rv_b(d2).v
same_support ==
    /\ lower_bound(eq_self).v = lower_bound(eq_other).v
    /\ upper_bound(eq_self).v = upper_bound(eq_other).v
built_from_bounds(self) == self.rv_gen.name = "uniform" /\ self.rv_gen.kwds = <<>>

\* C13: self == other is True exactly when both are the same variant, all
\* attributes other than the distribution match by value and the
\* distributions match by family, positional arguments, keyword arguments
\* and support; two RealParameters built from the same bounds are equal, and
\* one with a non-uniform distribution over the same support equals neither.
C13_equality ==
    (eq_result # "none") =>
        /\ (eq_result = "True") <=>
             (eq_self.cls = eq_other.cls /\ same_attributes /\ same_distribution)
        /\ (/\ eq_self.cls = "RealParameter" /\ eq_other.cls = "RealParameter"
            /\ built_from_bounds(eq_self) /\ built_from_bounds(eq_other)
            /\ same_support /\ same_attributes)
           => eq_result = "True"
        /\ (/\ same_support
            /\ (eq_self.rv_gen.name = "uniform") # (eq_other.rv_gen.name = "uniform"))
           => eq_result = "False"

\* a RealParameter built from bounds compared with one that has a
\* non-uniform distribution over the same support and the same attributes
C13_witness ==
    /\ eq_result = "False"
    /\ eq_self.cls = "RealParameter" /\ eq_other.cls = "RealParameter"
    /\ built_from_bounds(eq_self)
    /\ eq_other.rv_gen.name = "arcsine"
    /\ same_support
    /\ same_attributes

\* ------------------------------------------------- single-pass sequence
\* the ordinals yielded by the current generator are pairwise distinct and
\* start at 0
ordinals_once ==
    /\ \A k1, k2 \in 1..Len(yielded) :
         k1 # k2 => yielded[k1].experiment_id # yielded[k2].experiment_id
    /\ yielded # <<>> => yielded[1].experiment_id = 0
\* (re-)invoking produces no Case; a pull produces at most one
produced_on_pull ==
    IF pc' = "created" /\ pc # "created"
    THEN yielded' = <<>>
    ELSE Len(yielded') <= Len(yielded) + 1
           /\ SubSeq(yielded', 1, Len(yielded)) = yielded
\* a pull on a closed generator leaves it closed and produces no Case
closed_stays_closed ==
    (pc = "closed" /\ replayed' = replayed) =>
        (pc' = "closed" /\ yielded' = yielded)
\* the sequence starts over only through a new invocation
replay_by_reinvocation ==
    (yielded # <<>> /\ Len(yielded') <= Len(yielded) /\ yielded' # yielded) =>
        (replayed' # replayed /\ pc' = "created" /\ i' = 0)

\* C14: the sequence of one invocation is single-pass: a Case is produced
\* only by a pull, each ordinal is yielded at most once, every pull after
\* exhaustion produces no Case, and only a new invocation starts the
\* ordinals again at 0.
C14_single_pass ==
    /\ [] ordinals_once
    /\ [][produced_on_pull /\ closed_stays_closed /\ replay_by_reinvocation]_vars

\* the second invocation, exhausted after yielding from ordinal 0 again, has
\* been pulled once more
C14_witness ==
    /\ replayed
    /\ exhausted
    /\ Len(raised) > 1
    /\ yielded # <<>>
    /\ yielded[1].experiment_id = 0

====
